---- MODULE Spec2Model ----
(***************************************************************************)
(* Browser chat client of mcp-demo: MCPApi (js/api.js), MCPUI (js/ui.js)   *)
(* and MCPApp (js/app.js) on the single-threaded event loop.  Every action *)
(* is one task of the event loop: an event handler or a promise            *)
(* continuation run up to its next await.                                  *)
(***************************************************************************)
EXTENDS Integers, Sequences, FiniteSets, TLC

\* ------------------------------------------------------------------ bounds
MaxActions == 3       \* user actions the handlers act upon: accepted submits,
                      \* over-length submits and accepted reset clicks

\* --------------------------------------------------------------- constants
MaxTools == 2         \* tools in the answer of GET /tools
MaxSocketCalls == 4   \* on the MCPWebSocketApi object: connect() calls, onMessage()
                      \* registrations, send() calls made on a socket, and
                      \* messages received, together
MAX_MESSAGE_LENGTH == 4000
Null == 0             \* the null conversation identifier; backend ids are 1, 2, ...

\* -------------------------------------------------------------------- text
\* A text is a sequence of runs; the run [ch |-> c, n |-> k] is the string c
\* repeated k times.  Typed input uses one-character runs.
Run(c, k) == [ch |-> c, n |-> k]
Lit(s) == <<Run(s, 1)>>

RECURSIVE TextLength(_)
TextLength(t) == IF t = <<>> THEN 0 ELSE Head(t).n + TextLength(Tail(t))

IsSpace(r) == r.ch = " "

RECURSIVE TrimStart(_)
TrimStart(t) ==
    IF t # <<>> /\ IsSpace(Head(t)) THEN TrimStart(Tail(t)) ELSE t

RECURSIVE TrimEnd(_)
TrimEnd(t) ==
    IF t # <<>> /\ IsSpace(t[Len(t)]) THEN TrimEnd(SubSeq(t, 1, Len(t) - 1)) ELSE t

Trim(t) == TrimEnd(TrimStart(t))

\* Values of the textarea at a submit event:
\* "", "  ", " " "a" x 4000 " " and "a" x 4001.
Inputs ==
    { <<>>,
      <<Run(" ", 2)>>,
      <<Run(" ", 1), Run("a", MAX_MESSAGE_LENGTH), Run(" ", 1)>>,
      <<Run("a", MAX_MESSAGE_LENGTH + 1)>> }

\* What the environment supplies.
NetworkErrorText == Lit("Failed to fetch")          \* fetch() rejection
SyntaxErrorText == Lit("Unexpected token")          \* response.json() rejection
Details == {"", "Server error"}                     \* error.detail of a non-2xx body
ReplyText == Lit("reply")                           \* data.response

VARIABLES
    isProcessing,      \* MCPApp.isProcessing
    conversationId,    \* MCPApi.conversationId
    inputDisabled,     \* messageInput.disabled and the submit button's
    chatMessages,      \* children of #chatMessages, in document order
    loadingVisible,    \* #loadingOverlay lacks the class "hidden"
    timers,            \* pending setTimeout callbacks, in firing order
    chatReqs,          \* suspended handleSendMessage calls (one /chat request each)
    resetsAtFetch,     \* handleReset calls awaiting fetch(/reset)
    resetsAtJson,      \* handleReset calls awaiting response.json() of a 2xx: for
                       \* each, the identifier its resetConversation overwrote
    nextId,            \* next identifier the backend issues
    cycles,            \* history: accepted submits so far
    actions,           \* history: user actions acted upon so far
    shownThisCycle,    \* history: an indicator was shown since the last accepted submit
    clearedIds,        \* history: identifiers cleared by resetConversation
    staleIds,          \* history: identifiers cleared before the last successful reset
    lastEvent          \* history: the task that produced this state

\* MCPApp.initialize and the elements it writes.
VARIABLES
    initPc,            \* where initialize() stands: "start", "health", "tools", "done"
    storedTheme,       \* localStorage.getItem('theme')
    darkTheme,         \* document.body has the class "dark-theme"
    listenersBound,    \* setupEventListeners has run
    statusText,        \* #statusText textContent
    statusConnected,   \* #connectionStatus has the class "connected"
    health,            \* what api.healthCheck() settled with
    tools,             \* MCPApp.tools
    toolCount,         \* the count shown in #toolCount
    toolsShown,        \* number of tool cards in #toolsList
    inputFocused,      \* focusInput has run
    steps              \* history: the steps initialize() has begun, in order

\* One MCPWebSocketApi object and the sockets it has created.
VARIABLES
    ws,                \* MCPWebSocketApi.ws: Null or the socket's number
    connected,         \* MCPWebSocketApi.connected
    messageCallbacks,  \* MCPWebSocketApi.messageCallbacks, in registration order
    sockets,           \* the WebSocket objects created so far, by number
    inbound,           \* history: the number of messages the sockets received
    received,          \* history: the listener calls made, in order
    wsEvent            \* history: the last call or socket event and its outcome

startupVars == <<initPc, storedTheme, darkTheme, listenersBound, statusText,
                 statusConnected, health, tools, toolCount, toolsShown,
                 inputFocused, steps>>
socketVars == <<ws, connected, messageCallbacks, sockets, inbound, received, wsEvent>>

chatVars == <<isProcessing, conversationId, inputDisabled, loadingVisible, timers,
              chatReqs, resetsAtFetch, resetsAtJson, nextId, cycles, actions,
              shownThisCycle, clearedIds, staleIds, lastEvent>>

vars == <<chatVars, chatMessages, startupVars, socketVars>>

apiVars == <<conversationId, nextId>>
uiVars == <<inputDisabled, chatMessages, loadingVisible>>
resetVars == <<resetsAtFetch, resetsAtJson>>
histVars == <<cycles, actions, shownThisCycle, clearedIds, staleIds>>

\* op: the task; busy: isProcessing when a submit or reset handler began;
\* len: the length of the trimmed textarea value of a submit event;
\* cleared: the identifier a failed resetConversation had overwritten with null;
\* resp: what the network answered the request that settled in this task.
Event(op, busy, len, cleared) ==
    [op |-> op, busy |-> busy, len |-> len, cleared |-> cleared, resp |-> "none"]

\* The task in which a request settled on the answer resp: "network" (fetch
\* rejected), "okJson", "okNoJson" (2xx, JSON or unparsable body), "errDetail",
\* "errNoDetail", "errNoJson" (non-2xx, JSON body with or without a detail,
\* or unparsable body).
Settled(op, resp) == [Event(op, FALSE, 0, Null) EXCEPT !.resp = resp]

\* ---------------------------------------------------------------- MCPUI
Element(type, content) == [type |-> type, content |-> content]

AddMessage(msgs, content, type) == Append(msgs, Element(type, content))

ShowError(msgs, message) == AddMessage(msgs, Lit("Error: ") \o message, "system")

TypingIndicator == Element("typing", <<>>)

ShowTypingIndicator(msgs) == Append(msgs, TypingIndicator)

IndicatorPositions(msgs) == {i \in 1..Len(msgs) : msgs[i].type = "typing"}

RemoveAt(msgs, i) == SubSeq(msgs, 1, i - 1) \o SubSeq(msgs, i + 1, Len(msgs))

\* document.getElementById returns the first element with the id.
FirstIndicator(msgs) ==
    CHOOSE i \in IndicatorPositions(msgs) : \A j \in IndicatorPositions(msgs) : i <= j

HideLastChild(msgs) == IF msgs = <<>> THEN msgs ELSE SubSeq(msgs, 1, Len(msgs) - 1)

\* "const indicator = document.getElementById('typingIndicator');
\*  if (indicator) indicator.remove();"
HideTypingIndicator(msgs) ==
    IF IndicatorPositions(msgs) = {} THEN msgs ELSE RemoveAt(msgs, FirstIndicator(msgs))

ClearMessages == AddMessage(<<>>, Lit("Conversation reset. Start a new chat!"), "system")

GetMessageInputUntrimmed(value) == value

\* "return this.messageInput.value.trim();"
GetMessageInput(value) == Trim(value)

\* ------------------------------------------------------- startup: values
\* A parsed JSON body, as far as the startup code reads it: kind is "object",
\* "array", "null" or "string"; status is the value's status property, length
\* its length property (the text "undefined" when it has none).
Json(kind, status, length) == [kind |-> kind, status |-> status, length |-> length]

\* "{ status: 'error', error: error.message }"
ErrorRecord == Json("object", "error", "undefined")

\* How a promise settled, and with what.
Resolved(value) == [settled |-> "resolved", value |-> value]
Rejected == [settled |-> "rejected", value |-> Json("null", "undefined", "undefined")]

\* What the network answers GET /health: fetch rejects, the body is not JSON,
\* or the body parses to a value.
HealthAnswers ==
    {[outcome |-> o, status |-> 0, body |-> Json("null", "undefined", "undefined")] :
         o \in {"network", "noJson"}}
    \cup {[outcome |-> "json", status |-> 200, body |-> b] :
              b \in {Json("object", st, "undefined") : st \in {"healthy", "degraded", "undefined"}}
                    \cup {Json("null", "undefined", "undefined"),
                          Json("string", "undefined", "7")}}

\* What the network answers GET /tools: as above, and the status of the
\* response; a JSON body is an array of n tools, an object or null.
ToolsAnswers ==
    {[outcome |-> o, status |-> 0, body |-> Json("null", "undefined", "undefined")] :
         o \in {"network"}}
    \cup {[outcome |-> o, status |-> st, body |-> Json("null", "undefined", "undefined")] :
              o \in {"noJson"}, st \in {200, 500}}
    \cup {[outcome |-> "json", status |-> st, body |-> b] :
              st \in {200, 500},
              b \in {Json("array", "undefined", ToString(n)) : n \in 0..MaxTools}
                    \cup {Json("object", "undefined", "undefined"),
                          Json("null", "undefined", "undefined")}}

\* The order of the steps of initialize().
InitializeOrder ==
    <<"loadTheme", "setupEventListeners", "checkConnection", "loadTools", "focusInput">>

\* ---------------------------------------------------------------- Init
\* The page after a startup that found the server healthy and no tools.
StartupDone ==
    /\ initPc = "done"
    /\ storedTheme = "null"
    /\ darkTheme = FALSE
    /\ listenersBound = TRUE
    /\ statusText = "Connected"
    /\ statusConnected = TRUE
    /\ health = Resolved(Json("object", "healthy", "undefined"))
    /\ tools = Json("array", "undefined", "0")
    /\ toolCount = "0 tools available"
    /\ toolsShown = "0"
    /\ inputFocused = TRUE
    /\ steps = InitializeOrder

\* A newly constructed MCPWebSocketApi.
SocketIdle ==
    /\ ws = Null
    /\ connected = FALSE
    /\ messageCallbacks = <<>>
    /\ sockets = <<>>
    /\ inbound = 0
    /\ received = <<>>
    /\ wsEvent = [op |-> "new", result |-> "none", socket |-> Null]

\* "new MCPApp()": the chat state after construction.
Constructed ==
    /\ isProcessing = FALSE
    /\ conversationId = Null
    /\ inputDisabled = FALSE
    /\ chatMessages = <<>>
    /\ loadingVisible = FALSE
    /\ timers = <<>>
    /\ chatReqs = {}
    /\ resetsAtFetch = 0
    /\ resetsAtJson = <<>>
    /\ nextId = 1
    /\ cycles = 0
    /\ actions = 0
    /\ shownThisCycle = FALSE
    /\ clearedIds = {}
    /\ staleIds = {}
    /\ lastEvent = Event("init", FALSE, 0, Null)

Init == Constructed /\ StartupDone /\ SocketIdle

\* ------------------------------------------------- MCPApp.handleSendMessage
SendGuardOff == FALSE

\* "if (this.isProcessing) return;"
SendGuard == isProcessing

TooLongUnchecked(message) == FALSE

\* "message.length > CONFIG.MAX_MESSAGE_LENGTH"
TooLong(message) == TextLength(message) > MAX_MESSAGE_LENGTH

TooLongText ==
    Lit("Message too long. Maximum ") \o Lit(ToString(MAX_MESSAGE_LENGTH)) \o Lit(" characters.")

\* The fetch of MCPApi.sendMessage: the body carries the identifier held now.
ChatRequest(message) ==
    [cycle |-> cycles + 1, message |-> message, conversation_id |-> conversationId]

\* Submit while a send is being processed: the handler returns at once.
SubmitBusy(value) ==
    /\ SendGuard
    /\ lastEvent' = Event("submit", isProcessing, TextLength(Trim(value)), Null)
    /\ UNCHANGED <<isProcessing, uiVars, timers, chatReqs, apiVars, resetVars, histVars>>
    /\ UNCHANGED <<startupVars, socketVars>>

\* Submit of an input that trims to the empty string.
SubmitEmpty(value) ==
    /\ ~SendGuard
    /\ GetMessageInput(value) = <<>>
    /\ lastEvent' = Event("submit", isProcessing, TextLength(Trim(value)), Null)
    /\ UNCHANGED <<isProcessing, uiVars, timers, chatReqs, apiVars, resetVars, histVars>>
    /\ UNCHANGED <<startupVars, socketVars>>

\* Submit of an over-length input: an error message and nothing else.
SubmitTooLong(value) ==
    /\ ~SendGuard
    /\ GetMessageInput(value) # <<>>
    /\ TooLong(GetMessageInput(value))
    /\ actions < MaxActions
    /\ chatMessages' = ShowError(chatMessages, TooLongText)
    /\ actions' = actions + 1
    /\ lastEvent' = Event("submit", isProcessing, TextLength(Trim(value)), Null)
    /\ UNCHANGED <<isProcessing, inputDisabled, loadingVisible, timers, chatReqs, apiVars,
                   resetVars, cycles, shownThisCycle, clearedIds, staleIds>>
    /\ UNCHANGED <<startupVars, socketVars>>

\* Accepted submit: runs to "await this.api.sendMessage(message)", which has
\* itself run to "await fetch(...)".
SubmitAccepted(value) ==
    /\ ~SendGuard
    /\ GetMessageInput(value) # <<>>
    /\ ~TooLong(GetMessageInput(value))
    /\ actions < MaxActions
    /\ isProcessing' = TRUE
    /\ inputDisabled' = TRUE
    /\ chatMessages' = AddMessage(chatMessages, GetMessageInput(value), "user")
    /\ timers' = Append(timers, cycles + 1)
    /\ chatReqs' = chatReqs \cup {ChatRequest(GetMessageInput(value))}
    /\ cycles' = cycles + 1
    /\ actions' = actions + 1
    /\ shownThisCycle' = FALSE
    /\ lastEvent' = Event("submit", isProcessing, TextLength(Trim(value)), Null)
    /\ UNCHANGED <<loadingVisible, apiVars, resetVars, clearedIds, staleIds>>
    /\ UNCHANGED <<startupVars, socketVars>>

\* A submit event with the textarea holding value.
HandleSendMessage ==
    \E value \in Inputs :
        \/ SubmitBusy(value)
        \/ SubmitEmpty(value)
        \/ SubmitTooLong(value)
        \/ SubmitAccepted(value)

\* The setTimeout callback of the oldest pending timer runs.
TimerFires ==
    /\ timers # <<>>
    /\ timers' = Tail(timers)
    /\ IF isProcessing
       THEN /\ chatMessages' = ShowTypingIndicator(chatMessages)
            /\ shownThisCycle' = TRUE
       ELSE UNCHANGED <<chatMessages, shownThisCycle>>
    /\ lastEvent' = Event("timer", FALSE, 0, Null)
    /\ UNCHANGED <<isProcessing, inputDisabled, loadingVisible, chatReqs,
                   apiVars, resetVars, cycles, actions, clearedIds, staleIds>>
    /\ UNCHANGED <<startupVars, socketVars>>

FlagAfterSendNoFinally(ok) == ~ok

\* "finally { this.isProcessing = false; ... }"
FlagAfterSend(ok) == FALSE

StoredConversationIdKept(id) == conversationId

\* "this.conversationId = data.conversation_id"
StoredConversationId(id) == id

\* The identifier the backend answers a /chat request with: the one the
\* request carries, or a newly issued one when it carries none.
BackendConversationId(r) ==
    IF r.conversation_id = Null THEN nextId ELSE r.conversation_id

TimerPending(c) == \E i \in 1..Len(timers) : timers[i] = c

\* The rest of handleSendMessage once api.sendMessage has settled: the try
\* block's tail or the catch block, then the finally block.
SendSettles(r, ok, rendered) ==
    /\ chatMessages' = rendered
    /\ isProcessing' = FlagAfterSend(ok)
    /\ inputDisabled' = FALSE
    /\ chatReqs' = chatReqs \ {r}
    /\ UNCHANGED <<loadingVisible, timers, resetVars, histVars>>
    /\ UNCHANGED <<startupVars, socketVars>>

SendRejects(r, resp, message) ==
    /\ SendSettles(r, FALSE, ShowError(HideTypingIndicator(chatMessages), message))
    /\ lastEvent' = Settled("sendFailed", resp)
    /\ UNCHANGED apiVars

\* MCPApi.sendMessage awaits fetch and then response.json() and writes nothing
\* in between, so each outcome of a /chat request is one step: the step in
\* which sendMessage settles and handleSendMessage runs to its end.

\* fetch(/chat) rejects: network failure.
ChatFetchFails ==
    \E r \in chatReqs : SendRejects(r, "network", NetworkErrorText)

\* response.json() rejects: the body is not JSON (2xx or non-2xx status).
ChatJsonFails ==
    \E r \in chatReqs, resp \in {"okNoJson", "errNoJson"} :
        SendRejects(r, resp, SyntaxErrorText)

\* "throw new Error(error.detail || 'Failed to send message')"
ErrorBodyMessage(detail) == IF detail # "" THEN Lit(detail) ELSE Lit("Failed to send message")

\* A non-2xx response with a JSON body: its detail, or the generic message.
ChatErrorBody ==
    \E r \in chatReqs, detail \in Details :
        SendRejects(r, IF detail # "" THEN "errDetail" ELSE "errNoDetail",
                    ErrorBodyMessage(detail))

\* A 2xx response with a JSON body: the identifier is stored, the indicator
\* hidden and the assistant's message rendered.
ChatSucceeds ==
    \E r \in chatReqs :
        /\ conversationId' = StoredConversationId(BackendConversationId(r))
        /\ nextId' = IF r.conversation_id = Null THEN nextId + 1 ELSE nextId
        /\ SendSettles(r, TRUE,
                       AddMessage(HideTypingIndicator(chatMessages), ReplyText, "assistant"))
        /\ lastEvent' = Settled("sendOk", "okJson")

\* ------------------------------------------------------- MCPApp.handleReset
ResetGuardOff == FALSE

\* "if (this.isProcessing) return;"
ResetGuard == isProcessing

\* Reset click while a send is being processed: the handler returns at once.
ResetBusy ==
    /\ ResetGuard
    /\ lastEvent' = Event("reset", isProcessing, 0, Null)
    /\ UNCHANGED <<isProcessing, uiVars, timers, chatReqs, apiVars, resetVars, histVars>>
    /\ UNCHANGED <<startupVars, socketVars>>

\* Accepted reset click: runs to "await fetch(/reset)" in resetConversation.
ResetAccepted ==
    /\ ~ResetGuard
    /\ actions < MaxActions
    /\ loadingVisible' = TRUE
    /\ resetsAtFetch' = resetsAtFetch + 1
    /\ actions' = actions + 1
    /\ lastEvent' = Event("reset", isProcessing, 0, Null)
    /\ UNCHANGED <<isProcessing, inputDisabled, chatMessages, timers, chatReqs,
                   apiVars, resetsAtJson, cycles, shownThisCycle, clearedIds, staleIds>>
    /\ UNCHANGED <<startupVars, socketVars>>

HandleReset == ResetBusy \/ ResetAccepted

\* The catch block of handleReset.
ResetRejects(cleared) ==
    /\ loadingVisible' = FALSE
    /\ chatMessages' = ShowError(chatMessages, Lit("Failed to reset conversation"))
    /\ lastEvent' = Event("resetFailed", FALSE, 0, cleared)
    /\ UNCHANGED <<isProcessing, inputDisabled, timers, chatReqs, nextId, histVars>>
    /\ UNCHANGED <<startupVars, socketVars>>

\* fetch(/reset) rejects (network failure) or resolves with a non-2xx status.
ResetFetchFails ==
    /\ resetsAtFetch > 0
    /\ resetsAtFetch' = resetsAtFetch - 1
    /\ ResetRejects(Null)
    /\ UNCHANGED <<conversationId, resetsAtJson>>

\* fetch(/reset) resolves 2xx: the identifier is cleared, then
\* resetConversation awaits response.json().
ResetFetchOk ==
    /\ resetsAtFetch > 0
    /\ resetsAtFetch' = resetsAtFetch - 1
    /\ resetsAtJson' = Append(resetsAtJson, conversationId)
    /\ conversationId' = Null
    /\ clearedIds' = clearedIds \cup ({conversationId} \ {Null})
    /\ lastEvent' = Event("resetResponse", FALSE, 0, Null)
    /\ UNCHANGED <<isProcessing, uiVars, timers, chatReqs, nextId, cycles, actions,
                   shownThisCycle, staleIds>>
    /\ UNCHANGED <<startupVars, socketVars>>

\* response.json() of the 2xx rejects: resetConversation rejects.
ResetJsonFails ==
    \E i \in 1..Len(resetsAtJson) :
        /\ resetsAtJson' = RemoveAt(resetsAtJson, i)
        /\ ResetRejects(resetsAtJson[i])
        /\ UNCHANGED <<conversationId, resetsAtFetch>>

\* response.json() of the 2xx resolves: the history is cleared.
ResetSucceeds ==
    \E i \in 1..Len(resetsAtJson) :
        /\ resetsAtJson' = RemoveAt(resetsAtJson, i)
        /\ chatMessages' = ClearMessages
        /\ loadingVisible' = FALSE
        /\ staleIds' = clearedIds
        /\ lastEvent' = Event("resetOk", FALSE, 0, Null)
        /\ UNCHANGED <<isProcessing, inputDisabled, timers, chatReqs, apiVars,
                       resetsAtFetch, cycles, actions, shownThisCycle, clearedIds>>
        /\ UNCHANGED <<startupVars, socketVars>>

\* ------------------------------------------------------------ specification
Next ==
    \/ HandleSendMessage
    \/ TimerFires
    \/ ChatFetchFails
    \/ ChatJsonFails
    \/ ChatErrorBody
    \/ ChatSucceeds
    \/ HandleReset
    \/ ResetFetchFails
    \/ ResetFetchOk
    \/ ResetJsonFails
    \/ ResetSucceeds

Spec == Init /\ [][Next]_vars

\* ------------------------------------------------------- MCPApp.initialize
Pending == [settled |-> "pending", value |-> Json("null", "undefined", "undefined")]

\* The page when DOMContentLoaded fires. The class of #connectionStatus in the
\* document is not fixed by the scripts.
StartupInit ==
    /\ Constructed
    /\ SocketIdle
    /\ initPc = "start"
    /\ storedTheme \in {"null", "light", "dark"}
    /\ darkTheme = FALSE
    /\ listenersBound = FALSE
    /\ statusText = ""
    /\ statusConnected \in BOOLEAN
    /\ health = Pending
    /\ tools = Json("array", "undefined", "0")
    /\ toolCount = ""
    /\ toolsShown = "0"
    /\ inputFocused = FALSE
    /\ steps = <<>>

\* "if (theme === 'dark') document.body.classList.add('dark-theme')"
LoadTheme(stored, dark) == IF stored = "dark" THEN TRUE ELSE dark

HealthCheckNoCatch(answer) ==
    IF answer.outcome = "json" THEN Resolved(answer.body) ELSE Rejected

\* MCPApi.healthCheck: the parsed body, whatever the status of the response;
\* a rejection of fetch or of response.json() becomes the error record.
HealthCheck(answer) ==
    IF answer.outcome = "json" THEN Resolved(answer.body) ELSE Resolved(ErrorRecord)

\* "health.status" throws when health is null; the catch block of
\* checkConnection also takes a rejection of healthCheck.
CheckConnectionThrows(result) ==
    result.settled = "rejected" \/ result.value.kind = "null"

\* MCPApp.checkConnection after "await this.api.healthCheck()": the status
\* text, the connected class and the error message shown (<<>> for none).
CheckConnection(result) ==
    IF CheckConnectionThrows(result)
    THEN [text |-> "Connection failed", connected |-> FALSE,
          error |-> Lit("Failed to connect to server. Please start the backend server.")]
    ELSE IF result.value.status = "healthy"
    THEN [text |-> "Connected", connected |-> TRUE, error |-> <<>>]
    ELSE [text |-> "Server unavailable", connected |-> FALSE,
          error |-> Lit("Could not connect to server. Please check if the backend is running.")]

\* "response.ok"
ResponseOk(status) == status >= 200 /\ status <= 299

\* MCPApi.listTools: rejects on a network failure, a non-2xx status or an
\* unparsable body.
ListTools(answer) ==
    IF answer.outcome = "network" \/ ~ResponseOk(answer.status) \/ answer.outcome = "noJson"
    THEN Rejected
    ELSE Resolved(answer.body)

\* "`${count} tool${count !== 1 ? 's' : ''} available`"
UpdateToolCount(count) == count \o " tool" \o (IF count # "1" THEN "s" ELSE "") \o " available"

\* The try block of loadTools throws: listTools rejected, "this.tools.length"
\* of null, or "tools.forEach" of a value that is no array.
LoadToolsThrows(result) == result.settled = "rejected" \/ result.value.kind # "array"

LoadToolsRethrows(result) == ~LoadToolsThrows(result)

\* "catch (error) { ...; this.ui.showError('Failed to load tools'); }": the
\* promise of loadTools resolves whatever happened.
LoadToolsReturns(result) == TRUE

\* MCPApp.loadTools after "await this.api.listTools()".
LoadTools(result) ==
    [tools |-> IF result.settled = "rejected" THEN tools ELSE result.value,
     toolCount |-> IF result.settled = "rejected" \/ result.value.kind = "null"
                   THEN toolCount ELSE UpdateToolCount(result.value.length),
     toolsShown |-> IF result.settled = "rejected" \/ result.value.kind = "null"
                    THEN toolsShown
                    ELSE IF result.value.kind = "array" THEN result.value.length ELSE "0",
     error |-> IF LoadToolsThrows(result) THEN Lit("Failed to load tools") ELSE <<>>]

ShowErrorIfAny(msgs, error) == IF error = <<>> THEN msgs ELSE ShowError(msgs, error)

\* DOMContentLoaded: initialize() runs to "await fetch(/health)" in healthCheck.
Initialize ==
    /\ initPc = "start"
    /\ darkTheme' = LoadTheme(storedTheme, darkTheme)
    /\ listenersBound' = TRUE
    /\ statusText' = "Checking connection..."
    /\ statusConnected' = FALSE
    /\ steps' = steps \o <<"loadTheme", "setupEventListeners", "checkConnection">>
    /\ initPc' = "health"
    /\ UNCHANGED <<chatVars, chatMessages, socketVars, storedTheme, health, tools,
                   toolCount, toolsShown, inputFocused>>

\* healthCheck settles: checkConnection runs to its end and initialize() goes
\* on to "await fetch(/tools)" in listTools.
HealthSettles ==
    \E answer \in HealthAnswers :
        /\ initPc = "health"
        /\ health' = HealthCheck(answer)
        /\ statusText' = CheckConnection(HealthCheck(answer)).text
        /\ statusConnected' = CheckConnection(HealthCheck(answer)).connected
        /\ chatMessages' = ShowErrorIfAny(chatMessages, CheckConnection(HealthCheck(answer)).error)
        /\ steps' = Append(steps, "loadTools")
        /\ initPc' = "tools"
        /\ UNCHANGED <<chatVars, socketVars, storedTheme, darkTheme, listenersBound,
                       tools, toolCount, toolsShown, inputFocused>>

\* listTools settles: loadTools runs to its end and, when it returns,
\* initialize() focuses the input.
ToolsSettles ==
    \E answer \in ToolsAnswers :
        /\ initPc = "tools"
        /\ tools' = LoadTools(ListTools(answer)).tools
        /\ toolCount' = LoadTools(ListTools(answer)).toolCount
        /\ toolsShown' = LoadTools(ListTools(answer)).toolsShown
        /\ chatMessages' = ShowErrorIfAny(chatMessages, LoadTools(ListTools(answer)).error)
        /\ IF LoadToolsReturns(ListTools(answer))
           THEN /\ inputFocused' = TRUE
                /\ steps' = Append(steps, "focusInput")
                /\ initPc' = "done"
           ELSE /\ initPc' = "aborted"
                /\ UNCHANGED <<inputFocused, steps>>
        /\ UNCHANGED <<chatVars, socketVars, storedTheme, darkTheme, listenersBound,
                       statusText, statusConnected, health>>

StartupNext == Initialize \/ HealthSettles \/ ToolsSettles

StartupSpec == StartupInit /\ [][StartupNext]_vars

\* ---------------------------------------------------------- MCPWebSocketApi
\* A WebSocket object: its readyState, the promise of the connect() call that
\* created it, the send() and close() calls made on it.
NewSocket == [state |-> "CONNECTING", promise |-> "pending", sendCalls |-> 0, closeCalls |-> 0]

\* The callbacks handed to onMessage: each returns or throws when called.
Listeners == {[name |-> "log", throws |-> FALSE], [name |-> "parse", throws |-> TRUE]}

RECURSIVE SendCalls(_)
SendCalls(socks) == IF socks = <<>> THEN 0 ELSE Head(socks).sendCalls + SendCalls(Tail(socks))

\* The calls and messages counted against MaxSocketCalls.
SocketCalls == Len(sockets) + Len(messageCallbacks) + inbound + SendCalls(sockets)

SocketEvent(op, result, socket) == [op |-> op, result |-> result, socket |-> socket]

\* "this.ws = new WebSocket(this.wsUrl)" and the four handlers set on it.
Connect ==
    /\ SocketCalls < MaxSocketCalls
    /\ sockets' = Append(sockets, NewSocket)
    /\ ws' = Len(sockets) + 1
    /\ wsEvent' = SocketEvent("connect", "pending", Len(sockets) + 1)
    /\ UNCHANGED <<connected, messageCallbacks, inbound, received>>
    /\ UNCHANGED <<chatVars, chatMessages, startupVars>>

\* "if (!this.connected)"
NotConnectedGuard == ~connected

\* WebSocket.send by readyState: throws InvalidStateError while CONNECTING,
\* transmits while OPEN, drops the data while CLOSING or CLOSED.
SendResult(state) ==
    CASE state = "CONNECTING" -> "invalidState"
      [] state = "OPEN" -> "sent"
      [] OTHER -> "discarded"

\* MCPWebSocketApi.sendMessage. "this.ws.send(message)" throws a TypeError
\* when this.ws is null.
SendMessage ==
    \/ /\ NotConnectedGuard
       /\ wsEvent' = SocketEvent("sendMessage", "notConnected", ws)
       /\ UNCHANGED sockets
    \/ /\ ~NotConnectedGuard
       /\ ws = Null
       /\ wsEvent' = SocketEvent("sendMessage", "typeError", ws)
       /\ UNCHANGED sockets
    \/ /\ ~NotConnectedGuard
       /\ ws # Null
       /\ SocketCalls < MaxSocketCalls
       /\ sockets' = [sockets EXCEPT ![ws].sendCalls = @ + 1]
       /\ wsEvent' = SocketEvent("sendMessage", SendResult(sockets[ws].state), ws)

SendMessageCall ==
    /\ SendMessage
    /\ UNCHANGED <<ws, connected, messageCallbacks, inbound, received>>
    /\ UNCHANGED <<chatVars, chatMessages, startupVars>>

\* "this.messageCallbacks.push(callback)"
OnMessage ==
    \E callback \in Listeners :
        /\ SocketCalls < MaxSocketCalls
        /\ messageCallbacks' = Append(messageCallbacks, callback)
        /\ wsEvent' = SocketEvent("onMessage", "none", ws)
        /\ UNCHANGED <<ws, connected, sockets, inbound, received>>
        /\ UNCHANGED <<chatVars, chatMessages, startupVars>>

\* WebSocket.close: starts the closing handshake unless already closing.
Close(socket) ==
    [socket EXCEPT !.state = IF @ \in {"CONNECTING", "OPEN"} THEN "CLOSING" ELSE @,
                   !.closeCalls = @ + 1]

\* "if (this.ws) { this.ws.close(); this.ws = null; }"
Disconnect ==
    /\ IF ws # Null
       THEN /\ sockets' = [sockets EXCEPT ![ws] = Close(@)]
            /\ ws' = Null
            /\ wsEvent' = SocketEvent("disconnect", "closed", ws)
       ELSE /\ wsEvent' = SocketEvent("disconnect", "none", ws)
            /\ UNCHANGED <<ws, sockets>>
    /\ UNCHANGED <<connected, messageCallbacks, inbound, received>>
    /\ UNCHANGED <<chatVars, chatMessages, startupVars>>

\* The connection of socket i is established: its onopen handler runs.
SocketOpens ==
    \E i \in 1..Len(sockets) :
        /\ sockets[i].state = "CONNECTING"
        /\ sockets' = [sockets EXCEPT ![i].state = "OPEN", ![i].promise = "resolved"]
        /\ connected' = TRUE
        /\ wsEvent' = SocketEvent("open", "none", i)
        /\ UNCHANGED <<ws, messageCallbacks, inbound, received>>
        /\ UNCHANGED <<chatVars, chatMessages, startupVars>>

\* The connection of socket i fails before it opened: its onerror handler
\* rejects the promise and its onclose handler runs.
SocketFails ==
    \E i \in 1..Len(sockets) :
        /\ sockets[i].state \in {"CONNECTING", "CLOSING"}
        /\ sockets[i].promise = "pending"
        /\ sockets' = [sockets EXCEPT ![i].state = "CLOSED", ![i].promise = "rejected"]
        /\ connected' = FALSE
        /\ wsEvent' = SocketEvent("error", "none", i)
        /\ UNCHANGED <<ws, messageCallbacks, inbound, received>>
        /\ UNCHANGED <<chatVars, chatMessages, startupVars>>

\* The server starts the closing handshake of the open socket i.
SocketClosing ==
    \E i \in 1..Len(sockets) :
        /\ sockets[i].state = "OPEN"
        /\ sockets' = [sockets EXCEPT ![i].state = "CLOSING"]
        /\ wsEvent' = SocketEvent("closing", "none", i)
        /\ UNCHANGED <<ws, connected, messageCallbacks, inbound, received>>
        /\ UNCHANGED <<chatVars, chatMessages, startupVars>>

\* The connection of socket i, once open, is closed: its onclose handler runs.
SocketCloses ==
    \E i \in 1..Len(sockets) :
        /\ sockets[i].state \in {"OPEN", "CLOSING"}
        /\ sockets[i].promise = "resolved"
        /\ sockets' = [sockets EXCEPT ![i].state = "CLOSED"]
        /\ connected' = FALSE
        /\ wsEvent' = SocketEvent("close", "none", i)
        /\ UNCHANGED <<ws, messageCallbacks, inbound, received>>
        /\ UNCHANGED <<chatVars, chatMessages, startupVars>>

\* "this.messageCallbacks.forEach(callback => callback(event.data))": the
\* calls made, in order; a callback that throws ends the forEach.
RECURSIVE ForEach(_, _, _)
ForEach(callbacks, i, data) ==
    IF i > Len(callbacks) THEN <<>>
    ELSE <<[listener |-> i, data |-> data]>>
         \o (IF callbacks[i].throws THEN <<>> ELSE ForEach(callbacks, i + 1, data))

\* The open socket i receives a message: its onmessage handler runs.
SocketMessage ==
    \E i \in 1..Len(sockets) :
        /\ sockets[i].state = "OPEN"
        /\ SocketCalls < MaxSocketCalls
        /\ inbound' = inbound + 1
        /\ received' = received \o ForEach(messageCallbacks, 1, inbound + 1)
        /\ wsEvent' = SocketEvent("message", "none", i)
        /\ UNCHANGED <<ws, connected, messageCallbacks, sockets>>
        /\ UNCHANGED <<chatVars, chatMessages, startupVars>>

SocketNext ==
    \/ Connect
    \/ SendMessageCall
    \/ OnMessage
    \/ Disconnect
    \/ SocketOpens
    \/ SocketFails
    \/ SocketClosing
    \/ SocketCloses
    \/ SocketMessage

SocketSpec == Init /\ [][SocketNext]_vars

\* ================================================================== claims

Indicators == Cardinality(IndicatorPositions(chatMessages))

Last(msgs) == msgs[Len(msgs)]

IsErrorMessage(e) == e.type = "system" /\ e.content # <<>> /\ Head(e.content) = Run("Error: ", 1)

\* C1: at most one /chat request issued by handleSendMessage is in flight in
\* every reachable state, and a submit event received while isProcessing is
\* true issues no request and renders no message.
C1_SingleSendInFlight ==
    /\ [](Cardinality(chatReqs) <= 1)
    /\ [][(lastEvent'.op = "submit" /\ isProcessing)
            => (chatReqs' = chatReqs /\ chatMessages' = chatMessages)]_vars

\* A submit of a valid, non-empty input has been received during a send.
C1_Witness ==
    /\ lastEvent.op = "submit"
    /\ lastEvent.busy
    /\ lastEvent.len = MAX_MESSAGE_LENGTH
    /\ Cardinality(chatReqs) = 1

\* C2: isProcessing is false before any send, and whenever no handleSendMessage
\* call is suspended, in particular right after one has finished with
\* api.sendMessage resolved or rejected, it is false and the input is enabled.
C2_FlagClearedAfterSend ==
    /\ (chatReqs = {} => (~isProcessing /\ ~inputDisabled))
    /\ (lastEvent.op \in {"sendOk", "sendFailed"} => (~isProcessing /\ ~inputDisabled))

\* A send has finished by rejection.
C2_Witness ==
    /\ lastEvent.op = "sendFailed"
    /\ chatReqs = {}
    /\ ~isProcessing
    /\ ~inputDisabled

\* C3: a send cycle whose response resolves before its own delay has elapsed
\* (its timer is still pending when it settles) has had no typing indicator
\* shown during it.
C3_NoIndicatorForFastResponse ==
    [][\A r \in chatReqs :
          (r \notin chatReqs' /\ TimerPending(r.cycle)) => ~shownThisCycle]_vars

\* C4: in every state where a cycle's response or error message has been
\* rendered and no send is in flight, no typing indicator is present.
C4_IndicatorRemovedOnResolution ==
    (cycles > 0 /\ chatReqs = {}) => Indicators = 0

\* C5: at most one typing-indicator element exists in the message area in
\* every reachable state.
C5_AtMostOneIndicator == Indicators <= 1

\* C6 as stated: every submit of an input whose trimmed length exceeds
\* MAX_MESSAGE_LENGTH issues no request, renders no user message, appends
\* exactly one system error message and leaves isProcessing and the
\* conversation identifier unchanged.
C6_OverLengthRejected ==
    [][(lastEvent'.op = "submit" /\ lastEvent'.len > MAX_MESSAGE_LENGTH)
         => /\ chatReqs' = chatReqs
            /\ Len(chatMessages') = Len(chatMessages) + 1
            /\ SubSeq(chatMessages', 1, Len(chatMessages)) = chatMessages
            /\ IsErrorMessage(Last(chatMessages'))
            /\ isProcessing' = isProcessing
            /\ conversationId' = conversationId]_vars

\* C6 amended: the same, for a submit received while isProcessing is false.
C6_OverLengthRejectedWhenIdle ==
    [][(lastEvent'.op = "submit" /\ lastEvent'.len > MAX_MESSAGE_LENGTH /\ ~isProcessing)
         => /\ chatReqs' = chatReqs
            /\ Len(chatMessages') = Len(chatMessages) + 1
            /\ SubSeq(chatMessages', 1, Len(chatMessages)) = chatMessages
            /\ IsErrorMessage(Last(chatMessages'))
            /\ isProcessing' = isProcessing
            /\ conversationId' = conversationId]_vars

\* An over-length input has been submitted while idle and answered with the error.
C6_Witness ==
    /\ lastEvent.op = "submit"
    /\ lastEvent.len > MAX_MESSAGE_LENGTH
    /\ ~lastEvent.busy
    /\ chatMessages # <<>>
    /\ Last(chatMessages) = Element("system", Lit("Error: ") \o TooLongText)

\* C7: the conversation identifier is null until the first successful
\* sendMessage; a successful sendMessage stores the identifier the backend
\* returned for its request; every request carries the identifier stored when
\* it is issued; a failed sendMessage leaves the stored identifier unchanged.
C7_IdentifierFollowsSends ==
    /\ conversationId = Null
    /\ [][/\ (conversationId' \notin {conversationId, Null}) => lastEvent'.op = "sendOk"
          /\ lastEvent'.op = "sendOk"
               => \E r \in chatReqs \ chatReqs' : conversationId' = BackendConversationId(r)
          /\ \A r \in chatReqs' \ chatReqs : r.conversation_id = conversationId
          /\ lastEvent'.op = "sendFailed" => conversationId' = conversationId]_vars

\* A second request has been issued carrying the identifier a first one stored.
C7_Witness ==
    /\ lastEvent.op = "submit"
    /\ conversationId # Null
    /\ \E r \in chatReqs : r.conversation_id = conversationId /\ r.cycle > 1

\* C8: whenever resetConversation fails, the identifier that was stored when
\* it ran is still the stored identifier.
C8_FailedResetKeepsId ==
    (lastEvent.op = "resetFailed" /\ lastEvent.cleared # Null)
        => conversationId = lastEvent.cleared

\* C9: the stored identifier is null or was not cleared by a reset before the
\* most recent successful reset: once a reset has succeeded, an identifier
\* from before it is never stored again.
C9_NoStaleIdentifier == conversationId \notin staleIds

\* C10: a reset click received while isProcessing is true issues no /reset
\* request, does not show the loading overlay, and leaves the rendered
\* messages, the conversation identifier and isProcessing unchanged.
C10_ResetRefusedWhileSending ==
    [][(lastEvent'.op = "reset" /\ isProcessing)
         => UNCHANGED <<resetsAtFetch, resetsAtJson, loadingVisible, chatMessages,
                        conversationId, isProcessing>>]_vars

\* A reset click has been received during a send.
C10_Witness ==
    /\ lastEvent.op = "reset"
    /\ lastEvent.busy
    /\ isProcessing
    /\ Cardinality(chatReqs) = 1

\* C11: clearMessages never runs while a send is in flight: in the state a
\* successful reset leaves, no handleSendMessage call is suspended.
C11_NoClearDuringSend == lastEvent.op = "resetOk" => chatReqs = {}

CountOf(msgs, e) == Cardinality({i \in 1..Len(msgs) : msgs[i] = e})

ErrorElement(message) == Element("system", Lit("Error: ") \o message)

\* C12: when /chat is answered non-2xx with no JSON body, the controller
\* appends the system message "Error: Failed to send message" exactly once;
\* when the error body is JSON with a detail, it appends "Error: " and the detail.
C12_ErrorMessageFromBody ==
    [][/\ lastEvent'.resp = "errNoJson"
            => CountOf(chatMessages', ErrorElement(Lit("Failed to send message")))
                 = CountOf(chatMessages, ErrorElement(Lit("Failed to send message"))) + 1
       /\ lastEvent'.resp = "errDetail"
            => \E d \in Details \ {""} :
                 /\ Last(chatMessages') = ErrorElement(Lit(d))
                 /\ CountOf(chatMessages', ErrorElement(Lit(d)))
                      = CountOf(chatMessages, ErrorElement(Lit(d))) + 1]_vars

AssistantCount(msgs) == Cardinality({i \in 1..Len(msgs) : msgs[i].type = "assistant"})

\* C13: an accepted submit appends the user's message at once; when its /chat
\* request fails, the user's message is still in the history at the end of the
\* cycle, the history ends with the system error message, and no assistant
\* message has been added.
C13_UserMessageKeptOnFailure ==
    [][/\ \A r \in chatReqs' \ chatReqs : Last(chatMessages') = Element("user", r.message)
       /\ \A r \in chatReqs \ chatReqs' :
            lastEvent'.op = "sendFailed"
              => /\ \E i \in 1..(Len(chatMessages') - 1) :
                        chatMessages'[i] = Element("user", r.message)
                 /\ IsErrorMessage(Last(chatMessages'))
                 /\ AssistantCount(chatMessages') = AssistantCount(chatMessages)]_vars

IsHealthy(result) ==
    result.settled = "resolved" /\ result.value.kind = "object" /\ result.value.status = "healthy"

\* C14: in the step in which the health check settles, healthCheck has resolved
\* (it never rejects), the status is connected exactly when the value it
\* returned is a record whose status is "healthy", and in every other case the
\* status is disconnected and exactly one error message has been appended.
C14_StatusFollowsHealth ==
    [][initPc = "health" /\ initPc' # "health"
         => /\ health'.settled = "resolved"
            /\ statusConnected' <=> IsHealthy(health')
            /\ ~statusConnected'
                 => /\ Len(chatMessages') = Len(chatMessages) + 1
                    /\ SubSeq(chatMessages', 1, Len(chatMessages)) = chatMessages
                    /\ IsErrorMessage(Last(chatMessages'))]_vars

\* A network or parse failure of the health check has been turned into the
\* error record, the status shows disconnected and the error message is there.
C14_Witness ==
    /\ initPc = "tools"
    /\ health = Resolved(ErrorRecord)
    /\ ~statusConnected
    /\ statusText = "Server unavailable"
    /\ Len(chatMessages) = 1

IsPrefix(a, b) == Len(a) <= Len(b) /\ SubSeq(b, 1, Len(a)) = a

\* C15: the steps of initialize() run once each in the order load theme, bind
\* listeners, health check, fetch tools, focus input; the tools request is in
\* flight only once the health check has resolved; whatever the health check
\* answers, the tools fetch starts in the same step, and whatever the tools
\* fetch answers, the input is focused and initialize() is done, a failed
\* tools fetch having appended exactly its own error message.
C15_InitializeOrder ==
    /\ [](/\ IsPrefix(steps, InitializeOrder)
          /\ initPc \in {"start", "health", "tools", "done"}
          /\ initPc \in {"tools", "done"} => health.settled = "resolved"
          /\ initPc = "done" => steps = InitializeOrder /\ inputFocused)
    /\ [][/\ initPc = "health" /\ initPc' # "health"
               => initPc' = "tools" /\ steps' = Append(steps, "loadTools")
          /\ initPc = "tools" /\ initPc' # "tools"
               => /\ initPc' = "done"
                  /\ inputFocused'
                  /\ \/ chatMessages' = chatMessages /\ tools'.kind = "array"
                     \/ chatMessages' = Append(chatMessages, ErrorElement(Lit("Failed to load tools")))]_vars

\* Both the health check and the tools fetch failed: each left its own error
\* message, and initialize() still focused the input.
C15_Witness ==
    /\ initPc = "done"
    /\ inputFocused
    /\ ~statusConnected
    /\ Len(chatMessages) = 2
    /\ Last(chatMessages) = ErrorElement(Lit("Failed to load tools"))
    /\ chatMessages[1] # Last(chatMessages)

\* The socket held by the MCPWebSocketApi object has an open connection.
ConnectionOpen == ws # Null /\ sockets[ws].state = "OPEN"

\* C16: a sendMessage call made while the held socket has no open connection
\* fails with the not-connected error and makes no call on any socket; a
\* sendMessage call makes a send() call on a socket only when the connection
\* is open.
C16_SendOnlyWhenOpen ==
    [][wsEvent'.op = "sendMessage"
         => /\ ~ConnectionOpen => wsEvent'.result = "notConnected" /\ sockets' = sockets
            /\ sockets' # sockets => ConnectionOpen]_vars

\* One call of every registered listener, in registration order.
OneCallEach(callbacks, data) ==
    [i \in 1..Len(callbacks) |-> [listener |-> i, data |-> data]]

\* C17: a message a socket receives is delivered exactly once to every
\* registered listener, in registration order; a disconnect call with no
\* socket held (the second of two, or one before any connect) changes
\* nothing, and close() is called at most once on any socket.
C17_DeliveryAndDisconnect ==
    /\ [](\A i \in 1..Len(sockets) : sockets[i].closeCalls <= 1)
    /\ [][/\ inbound' # inbound
               => received' = received \o OneCallEach(messageCallbacks, inbound')
          /\ wsEvent'.op = "disconnect" /\ ws = Null
               => UNCHANGED <<ws, connected, messageCallbacks, sockets, inbound, received>>]_vars

\* The part of C17 about disconnect alone.
DisconnectIdempotent ==
    /\ [](\A i \in 1..Len(sockets) : sockets[i].closeCalls <= 1)
    /\ [][wsEvent'.op = "disconnect" /\ ws = Null
               => UNCHANGED <<ws, connected, messageCallbacks, sockets, inbound, received>>]_vars

\* A /chat request in flight settles: its fetch or its response.json()
\* resolves or rejects.
ChatSettles == ChatFetchFails \/ ChatJsonFails \/ ChatErrorBody \/ ChatSucceeds

\* The chat machine under the assumption that every issued /chat request
\* eventually resolves or rejects.
LiveSpec == Spec /\ WF_vars(ChatSettles)

\* C18: if every /chat request eventually settles, every state in which
\* isProcessing is true is eventually followed by a state in which it is false
\* and the input is enabled.
C18_InputEventuallyEnabled == isProcessing ~> (~isProcessing /\ ~inputDisabled)

\* A send has failed on the network and the flag is clear and the input
\* enabled again.
C18_Witness ==
    /\ lastEvent.op = "sendFailed"
    /\ lastEvent.resp = "network"
    /\ ~isProcessing
    /\ ~inputDisabled

IsMessage(e) == e.type # "typing"

\* The rendered messages: the children of #chatMessages other than typing
\* indicators.
Messages(msgs) == SelectSeq(msgs, IsMessage)

\* C19: every step other than a successful reset leaves the messages rendered
\* before it as a prefix of the history; the step of a successful reset
\* leaves exactly one system message, the one announcing the reset.
C19_HistoryAppendOnly ==
    [][/\ lastEvent'.op # "resetOk"
            => IsPrefix(Messages(chatMessages), Messages(chatMessages'))
       /\ lastEvent'.op = "resetOk"
            => chatMessages' =
                 <<Element("system", Lit("Conversation reset. Start a new chat!"))>>]_vars

\* A successful reset has wiped a history that held an exchange.
C19_Witness ==
    /\ lastEvent.op = "resetOk"
    /\ cycles > 0
    /\ chatReqs = {}
    /\ Len(chatMessages) = 1

\* C20: a submit whose trimmed input is empty issues no request, renders no
\* message, schedules nothing and leaves isProcessing, the input's enabled
\* state and the conversation identifier as they were.
C20_EmptySubmitNoOp ==
    [][lastEvent'.op = "submit" /\ lastEvent'.len = 0
         => UNCHANGED <<chatReqs, chatMessages, timers, isProcessing, inputDisabled,
                        conversationId>>]_vars

\* An empty submit has been handled while no send was in flight, after an
\* exchange that left a conversation identifier.
C20_Witness ==
    /\ lastEvent.op = "submit"
    /\ lastEvent.len = 0
    /\ ~lastEvent.busy
    /\ conversationId # Null
    /\ chatReqs = {}

\* C21: in every reachable state the connected flag being true implies that
\* a socket is held (ws is not null), and a sendMessage call made right after
\* a disconnect call fails with the not-connected error.
C21_ConnectedImpliesSocket ==
    /\ [](connected => ws # Null)
    /\ [][wsEvent.op = "disconnect" /\ wsEvent'.op = "sendMessage"
            => wsEvent'.result = "notConnected"]_vars
====
